---- MODULE Spec2Model ----
(***************************************************************************)
(* GeoShapely: Shapely geometries that carry a CRS.                        *)
(*                                                                         *)
(* The model keeps a heap of GeoShape instances (identity = index in the   *)
(* heap), and one action per public entry point: the GeoPoint / GeoPolygon *)
(* / GeoLineString / GeoLinearRing constructors, GeoBaseGeometry.set_crs,  *)
(* GeoBaseGeometry.to_crs and ops.make_geoshape_from_geom.  Each call      *)
(* leaves a record of itself in `last` (arguments, outcome, returned       *)
(* value) and the heap it started from in `last.pre`; the caller then      *)
(* goes on to its next statement (Continue).  Calls are synchronous and    *)
(* single-threaded, so one call is on record at a time.                    *)
(*                                                                         *)
(* pyproj and Shapely are modelled by what this code relies on:            *)
(*   - a resolved pyproj.CRS is one of the strings in CRSs, compared by    *)
(*     value; Python's None is the string None;                            *)
(*   - pyproj.CRS.from_user_input maps a raw representation to a resolved  *)
(*     CRS or raises CRSError;                                             *)
(*   - a pyproj.Transformer declares a source and a target CRS; its       *)
(*     transform is the identity between equal CRSs and exchanges the      *)
(*     coordinate values 0 and 1 between different ones;                   *)
(*   - shapely.ops.transform maps the function over every vertex and       *)
(*     rebuilds a geometry of the same type.                               *)
(***************************************************************************)
EXTENDS Integers, Sequences, FiniteSets, TLC

VARIABLES heap, last

vars == <<heap, last>>

\* ------------------------------------------------------------------ bounds
\* Most GeoShape instances alive at once.
MaxObjs == 2

\* ------------------------------------------------------------ CRS values
None == "None"

\* Resolved pyproj.CRS values.
CRSs == {"EPSG:4326", "EPSG:3857"}

\* Raw representations a caller may pass where a CRS is expected.
RawInputs == {"epsg:4326", "invalid"}

\* pyproj.CRS.from_user_input: the resolved CRS, or CRSError.
FromUserInput(raw) ==
    IF raw = "epsg:4326" THEN [ok |-> TRUE, crs |-> "EPSG:4326"]
    ELSE IF raw = "epsg:3857" THEN [ok |-> TRUE, crs |-> "EPSG:3857"]
    ELSE [ok |-> FALSE, crs |-> None]

\* The value of the `crs` argument of a call.
NoneArg == [kind |-> "none", val |-> None, ref |-> 0]
CrsArg(c) == [kind |-> "crs", val |-> c, ref |-> 0]
RawArg(r) == [kind |-> "raw", val |-> r, ref |-> 0]
GeoArg(i) == [kind |-> "geo", val |-> None, ref |-> i]

CrsInputs(h) ==
    {NoneArg} \cup {CrsArg(c) : c \in CRSs} \cup {RawArg(r) : r \in RawInputs}
        \cup {GeoArg(i) : i \in DOMAIN h}

\* _parse_crs without the call to from_user_input: the raw value is kept.
parse_crs_RawAsIs(h, crs) ==
    IF crs.kind = "none" THEN [ok |-> TRUE, crs |-> None]
    ELSE IF crs.kind = "geo" THEN [ok |-> TRUE, crs |-> h[crs.ref].crs]
    ELSE IF crs.kind = "crs" THEN [ok |-> TRUE, crs |-> crs.val]
    ELSE [ok |-> TRUE, crs |-> crs.val]

\* GeoBaseGeometry._parse_crs
_parse_crs(h, crs) ==
    IF crs.kind = "none" THEN [ok |-> TRUE, crs |-> None]
    ELSE IF crs.kind = "geo" THEN [ok |-> TRUE, crs |-> h[crs.ref].crs]
    ELSE IF crs.kind = "crs" THEN [ok |-> TRUE, crs |-> crs.val]
    ELSE FromUserInput(crs.val)

\* ------------------------------------------------------------ transformers
NoTransformer == [given |-> FALSE, source_crs |-> None, target_crs |-> None]

\* pyproj.Transformer.from_crs(s, t) for resolved s and t.
FromCrs(s, t) == [given |-> TRUE, source_crs |-> s, target_crs |-> t]

\* pyproj.Transformer.from_pipeline: declares neither source nor target.
PipelineTransformer == [given |-> TRUE, source_crs |-> None, target_crs |-> None]

Transformers ==
    {NoTransformer, PipelineTransformer} \cup {FromCrs(s, t) : s, t \in CRSs}

\* Transformer.transform on one coordinate value.
TransformCoord(s, t, v) == IF s = t THEN v ELSE 1 - v

TransformVertex(s, t, p) == <<TransformCoord(s, t, p[1]), TransformCoord(s, t, p[2])>>

\* shapely.ops.transform: the function applied to every vertex.
TransformCoords(s, t, coords) ==
    [k \in DOMAIN coords |-> TransformVertex(s, t, coords[k])]

\* -------------------------------------------------------------- geometries
GeoClasses == {"GeoPoint", "GeoPolygon", "GeoLineString", "GeoLinearRing"}

\* Coordinates each Shapely constructor is called with (the tests' shapes).
SampleCoords(cls) ==
    IF cls \in {"Point", "GeoPoint"} THEN << <<1, 1>> >>
    ELSE IF cls \in {"LineString", "GeoLineString"}
        THEN << <<0, 0>>, <<1, 0>>, <<1, 1>> >>
    ELSE IF cls \in {"Polygon", "GeoPolygon"}
        THEN << <<0, 0>>, <<0, 1>>, <<1, 1>>, <<1, 0>>, <<0, 0>> >>
    ELSE IF cls \in {"LinearRing", "GeoLinearRing"}
        THEN << <<0, 0>>, <<0, 1>>, <<1, 1>>, <<1, 0>> >>
    ELSE << >>

\* A LinearRing (and a Polygon shell) is stored closed.
CloseRing(coords) ==
    IF Len(coords) > 0 /\ coords[1] # coords[Len(coords)]
        THEN Append(coords, coords[1])
        ELSE coords

\* The coordinates a Shapely geometry of class cls holds when built from coords.
StoredCoords(cls, coords) ==
    IF cls \in {"LinearRing", "GeoLinearRing", "Polygon", "GeoPolygon"}
        THEN CloseRing(coords)
        ELSE coords

\* Plain Shapely geometries and other values handed to make_geoshape_from_geom.
PlainClasses == {"Point", "Polygon", "LineString", "LinearRing"}

PlainGeom(cls) ==
    [cls |-> cls, coords |-> StoredCoords(cls, SampleCoords(cls)), ref |-> 0]

\* A BaseGeometry with no Geo-equivalent, and a value that is no geometry.
WeirdShape == [cls |-> "WeirdShape", coords |-> << >>, ref |-> 0]
NotAGeom == [cls |-> "NotAGeom", coords |-> << >>, ref |-> 0]
NoGeom == [cls |-> "", coords |-> << >>, ref |-> 0]

\* A GeoShape of the heap passed by reference.
GeoRef(h, i) == [cls |-> h[i].cls, coords |-> h[i].coords, ref |-> i]

GeomInputs(h) ==
    {PlainGeom(c) : c \in PlainClasses} \cup {WeirdShape, NotAGeom}
        \cup {GeoRef(h, i) : i \in DOMAIN h}

\* isinstance(geom, base), by Shapely's and this package's class hierarchy.
IsInstance(cls, base) ==
    \/ cls = base
    \/ base = "BaseGeometry" /\ cls \in PlainClasses \cup GeoClasses \cup {"WeirdShape"}
    \/ base = "GeoBaseGeometry" /\ cls \in GeoClasses
    \/ base = "Point" /\ cls = "GeoPoint"
    \/ base = "Polygon" /\ cls = "GeoPolygon"
    \/ base = "LineString" /\ cls \in {"LinearRing", "GeoLineString", "GeoLinearRing"}
    \/ base = "LinearRing" /\ cls = "GeoLinearRing"

\* ---------------------------------------------------------- call outcomes
\* A call that returned the GeoShape at heap index r.
Returned(h, r) ==
    [heap |-> h, outcome |-> "ok", msg |-> "", ret |-> r, retKind |-> "geoshape"]

\* A call that raised.
Raised(h, exc, m) ==
    [heap |-> h, outcome |-> exc, msg |-> m, ret |-> 0, retKind |-> "none"]

\* A call that returned an exception object instead of raising it.
ReturnedException(h, exc, m) ==
    [heap |-> h, outcome |-> "ok", msg |-> m, ret |-> 0, retKind |-> exc]

\* deepcopy(self) with the copy's fields as given: a new instance.
NewObject(h, obj) == Returned(Append(h, obj), Len(h) + 1)

\* ------------------------------------------------------------- operations
\* GeoPoint.__init__ and its three siblings: GeoBaseGeometry.__init__ parses
\* the CRS, then the Shapely constructor stores the coordinates.
Construct(h, cls, coords, crs) ==
    LET p == _parse_crs(h, crs) IN
    IF ~p.ok THEN Raised(h, "CRSError", "invalid_crs")
    ELSE NewObject(h, [cls |-> cls, crs |-> p.crs, coords |-> StoredCoords(cls, coords)])

\* set_crs that assigns in place before it checks for a conflict.
set_crs_AssignBeforeCheck(h, self, crs, inplace, allow_override) ==
    LET p == _parse_crs(h, crs)
        h2 == IF inplace /\ p.ok THEN [h EXCEPT ![self].crs = p.crs] ELSE h IN
    IF ~p.ok THEN Raised(h, "CRSError", "invalid_crs")
    ELSE IF h[self].crs # None /\ ~allow_override /\ h[self].crs # p.crs
        THEN Raised(h2, "ValueError", "crs_conflict")
    ELSE IF ~inplace
        THEN NewObject(h, [h[self] EXCEPT !.crs = p.crs])
        ELSE Returned(h2, self)

\* set_crs that copies whatever `inplace` says.
set_crs_AlwaysCopies(h, self, crs, inplace, allow_override) ==
    LET p == _parse_crs(h, crs) IN
    IF ~p.ok THEN Raised(h, "CRSError", "invalid_crs")
    ELSE IF h[self].crs # None /\ ~allow_override /\ h[self].crs # p.crs
        THEN Raised(h, "ValueError", "crs_conflict")
    ELSE NewObject(h, [h[self] EXCEPT !.crs = p.crs])

\* GeoBaseGeometry.set_crs
set_crs(h, self, crs, inplace, allow_override) ==
    LET p == _parse_crs(h, crs) IN
    IF ~p.ok THEN Raised(h, "CRSError", "invalid_crs")
    ELSE IF h[self].crs # None /\ ~allow_override /\ h[self].crs # p.crs
        THEN Raised(h, "ValueError", "crs_conflict")
    ELSE IF ~inplace
        THEN NewObject(h, [h[self] EXCEPT !.crs = p.crs])
        ELSE Returned([h EXCEPT ![self].crs = p.crs], self)

\* The argument that stands for an already resolved CRS (or None).
Resolved(c) == IF c = None THEN NoneArg ELSE CrsArg(c)

\* The tail of to_crs: build the transformer if none was given, transform a copy.
Reproject(h, self, c, transformer) ==
    IF ~transformer.given /\ c = None
        \* pyproj.Transformer.from_crs(self._crs, None) cannot resolve None
        THEN Raised(h, "CRSError", "invalid_crs")
    ELSE LET t == IF transformer.given THEN transformer ELSE FromCrs(h[self].crs, c) IN
         NewObject(h, [cls |-> h[self].cls,
                       crs |-> c,
                       coords |-> StoredCoords(h[self].cls,
                            TransformCoords(t.source_crs, t.target_crs, h[self].coords))])

\* to_crs that looks at a missing CRS before it looks at the transformer.
to_crs_NoneCheckFirst(h, self, crs, transformer) ==
    LET p == _parse_crs(h, crs) IN
    IF ~p.ok THEN Raised(h, "CRSError", "invalid_crs")
    ELSE IF h[self].crs = None
        THEN set_crs(h, self, Resolved(p.crs), FALSE, FALSE)
    ELSE IF transformer.given /\ transformer.source_crs # h[self].crs
        THEN Raised(h, "ValueError", "incompatible_source")
    ELSE IF transformer.given /\ transformer.target_crs # p.crs
        THEN Raised(h, "ValueError", "incompatible_target")
    ELSE Reproject(h, self, p.crs, transformer)

\* to_crs that checks the transformer's source only.
to_crs_SourceCheckOnly(h, self, crs, transformer) ==
    LET p == _parse_crs(h, crs) IN
    IF ~p.ok THEN Raised(h, "CRSError", "invalid_crs")
    ELSE IF transformer.given /\ transformer.source_crs # h[self].crs
        THEN Raised(h, "ValueError", "incompatible_source")
    ELSE IF h[self].crs = None
        THEN set_crs(h, self, Resolved(p.crs), FALSE, FALSE)
    ELSE Reproject(h, self, p.crs, transformer)

\* to_crs that relabels the copy without transforming it.
to_crs_NoTransform(h, self, crs, transformer) ==
    LET p == _parse_crs(h, crs) IN
    IF ~p.ok THEN Raised(h, "CRSError", "invalid_crs")
    ELSE IF transformer.given /\ transformer.source_crs # h[self].crs
        THEN Raised(h, "ValueError", "incompatible_source")
    ELSE IF transformer.given /\ transformer.target_crs # p.crs
        THEN Raised(h, "ValueError", "incompatible_target")
    ELSE NewObject(h, [h[self] EXCEPT !.crs = p.crs])

\* GeoBaseGeometry.to_crs
to_crs(h, self, crs, transformer) ==
    LET p == _parse_crs(h, crs) IN
    IF ~p.ok THEN Raised(h, "CRSError", "invalid_crs")
    ELSE IF transformer.given /\ transformer.source_crs # h[self].crs
        THEN Raised(h, "ValueError", "incompatible_source")
    ELSE IF transformer.given /\ transformer.target_crs # p.crs
        THEN Raised(h, "ValueError", "incompatible_target")
    ELSE IF h[self].crs = None
        THEN set_crs(h, self, Resolved(p.crs), FALSE, FALSE)
    ELSE Reproject(h, self, p.crs, transformer)

\* The dispatch of make_geoshape_from_geom on a plain geometry.
FromPlain(h, shapely_geom, crs) ==
    IF IsInstance(shapely_geom.cls, "Point")
        THEN Construct(h, "GeoPoint", shapely_geom.coords, crs)
    ELSE IF IsInstance(shapely_geom.cls, "LineString")
        THEN Construct(h, "GeoLineString", shapely_geom.coords, crs)
    ELSE IF IsInstance(shapely_geom.cls, "Polygon")
        THEN Construct(h, "GeoPolygon", shapely_geom.coords, crs)
    ELSE IF IsInstance(shapely_geom.cls, "LinearRing")
        THEN Construct(h, "GeoLinearRing", shapely_geom.coords, crs)
    ELSE ReturnedException(h, "TypeError", "no_geo_equivalent")

\* make_geoshape_from_geom that sets the CRS on the GeoShape it was given.
make_geoshape_from_geom_InplaceOnInput(h, shapely_geom, crs) ==
    IF ~IsInstance(shapely_geom.cls, "BaseGeometry")
        THEN Raised(h, "TypeError", "not_a_geometry")
    ELSE IF IsInstance(shapely_geom.cls, "GeoBaseGeometry")
        THEN IF h[shapely_geom.ref].crs # None
                THEN to_crs(h, shapely_geom.ref, crs, NoTransformer)
                ELSE set_crs(h, shapely_geom.ref, crs, TRUE, FALSE)
    ELSE FromPlain(h, shapely_geom, crs)

\* ops.make_geoshape_from_geom
make_geoshape_from_geom(h, shapely_geom, crs) ==
    IF ~IsInstance(shapely_geom.cls, "BaseGeometry")
        THEN Raised(h, "TypeError", "not_a_geometry")
    ELSE IF IsInstance(shapely_geom.cls, "GeoBaseGeometry")
        THEN IF h[shapely_geom.ref].crs # None
                THEN to_crs(h, shapely_geom.ref, crs, NoTransformer)
                ELSE set_crs(h, shapely_geom.ref, crs, FALSE, FALSE)
    ELSE FromPlain(h, shapely_geom, crs)

\* ---------------------------------------------------------------- actions
\* The record a call leaves behind.
Call(op, self, geom, crs, transformer, inplace, allow_override, res) ==
    [op |-> op, self |-> self, geom |-> geom, crs |-> crs,
     transformer |-> transformer, inplace |-> inplace,
     allow_override |-> allow_override,
     outcome |-> res.outcome, msg |-> res.msg, ret |-> res.ret,
     retKind |-> res.retKind, pre |-> heap]

NoCall ==
    [op |-> "none", self |-> 0, geom |-> NoGeom, crs |-> NoneArg,
     transformer |-> NoTransformer, inplace |-> FALSE, allow_override |-> FALSE,
     outcome |-> "ok", msg |-> "", ret |-> 0, retKind |-> "none", pre |-> << >>]

Init ==
    /\ heap = << >>
    /\ last = NoCall

\* GeoPoint(coords, crs=...), GeoPolygon(...), GeoLineString(...), GeoLinearRing(...)
DoConstruct ==
    /\ last.op = "none"
    /\ \E cls \in GeoClasses, crs \in CrsInputs(heap) :
        LET res == Construct(heap, cls, SampleCoords(cls), crs) IN
        /\ Len(res.heap) <= MaxObjs
        /\ heap' = res.heap
        /\ last' = Call("construct", 0, [NoGeom EXCEPT !.cls = cls,
                            !.coords = SampleCoords(cls)], crs,
                        NoTransformer, FALSE, FALSE, res)

\* x.set_crs(crs, inplace, allow_override)
DoSetCrs ==
    /\ last.op = "none"
    /\ \E self \in DOMAIN heap, crs \in CrsInputs(heap),
       inplace \in BOOLEAN, allow_override \in BOOLEAN :
        LET res == set_crs(heap, self, crs, inplace, allow_override) IN
        /\ Len(res.heap) <= MaxObjs
        /\ heap' = res.heap
        /\ last' = Call("set_crs", self, NoGeom, crs, NoTransformer,
                        inplace, allow_override, res)

\* x.to_crs(crs, transformer)
DoToCrs ==
    /\ last.op = "none"
    /\ \E self \in DOMAIN heap, crs \in CrsInputs(heap), transformer \in Transformers :
        LET res == to_crs(heap, self, crs, transformer) IN
        /\ Len(res.heap) <= MaxObjs
        /\ heap' = res.heap
        /\ last' = Call("to_crs", self, NoGeom, crs, transformer, FALSE, FALSE, res)

\* ops.make_geoshape_from_geom(shapely_geom, crs)
DoMake ==
    /\ last.op = "none"
    /\ \E shapely_geom \in GeomInputs(heap), crs \in CrsInputs(heap) :
        LET res == make_geoshape_from_geom(heap, shapely_geom, crs) IN
        /\ Len(res.heap) <= MaxObjs
        /\ heap' = res.heap
        /\ last' = Call("make", shapely_geom.ref, shapely_geom, crs,
                        NoTransformer, FALSE, FALSE, res)

\* The caller takes the result (or handles the exception) and goes on.
Continue ==
    /\ last.op # "none"
    /\ last' = NoCall
    /\ UNCHANGED heap

Next == DoConstruct \/ DoSetCrs \/ DoToCrs \/ DoMake \/ Continue

Spec == Init /\ [][Next]_vars

\* ----------------------------------------------------------------- claims
\* The CRS the call on record resolved its `crs` argument to.
parsed == _parse_crs(last.pre, last.crs)

\* The receiver of the call on record, as it was when the call began.
receiver == last.pre[last.self]

\* The call on record returned a GeoShape that did not exist before the call.
ReturnedNew ==
    /\ last.outcome = "ok"
    /\ last.retKind = "geoshape"
    /\ last.ret \in DOMAIN heap
    /\ last.ret \notin DOMAIN last.pre

\* The call on record left every GeoShape that existed before it as it was.
PreUntouched == \A i \in DOMAIN last.pre : heap[i] = last.pre[i]

\* The GeoShape class the docstring of make_geoshape_from_geom pairs with a
\* Shapely class (Point -> GeoPoint, Polygon -> GeoPolygon, ...).
GeoEquivalent(cls) ==
    IF cls = "Point" THEN "GeoPoint"
    ELSE IF cls = "LineString" THEN "GeoLineString"
    ELSE IF cls = "Polygon" THEN "GeoPolygon"
    ELSE "GeoLinearRing"

\* C1: make_geoshape_from_geom on a plain Point, LineString, Polygon or
\* LinearRing, with a crs argument that resolves, returns a new instance of
\* the matching GeoShape class (LinearRing -> GeoLinearRing) whose crs is the
\* resolved CRS and whose coordinates are those of the input.
C1_FactoryMatchingVariant ==
    (last.op = "make" /\ last.geom.cls \in PlainClasses /\ parsed.ok) =>
        /\ ReturnedNew
        /\ heap[last.ret].cls = GeoEquivalent(last.geom.cls)
        /\ heap[last.ret].crs = parsed.crs
        /\ heap[last.ret].coords = last.geom.coords

\* C2: make_geoshape_from_geom on a value that is neither a GeoShape nor a
\* plain geometry of a supported class raises TypeError; it never returns.
C2_UnsupportedRaisesTypeError ==
    (/\ last.op = "make"
     /\ ~IsInstance(last.geom.cls, "GeoBaseGeometry")
     /\ last.geom.cls \notin PlainClasses) =>
        /\ last.outcome = "TypeError"
        /\ last.retKind = "none"

\* C3: set_crs(c2) on a GeoShape whose crs c1 is set and differs from the
\* resolved CRS c2: without allow_override it raises ValueError, whether
\* inplace or not, and nothing has changed; with allow_override it succeeds
\* and the result has crs c2 and the receiver's coordinates.
C3_SetCrsConflict ==
    (/\ last.op = "set_crs"
     /\ parsed.ok
     /\ parsed.crs \in CRSs
     /\ receiver.crs # None
     /\ receiver.crs # parsed.crs) =>
        IF ~last.allow_override
            THEN /\ last.outcome = "ValueError"
                 /\ last.msg = "crs_conflict"
                 /\ heap = last.pre
            ELSE /\ last.outcome = "ok"
                 /\ last.retKind = "geoshape"
                 /\ heap[last.ret].crs = parsed.crs
                 /\ heap[last.ret].coords = receiver.coords

\* An in-place set_crs of a different CRS was refused.
C3_Witness ==
    /\ last.op = "set_crs"
    /\ last.inplace
    /\ ~last.allow_override
    /\ parsed.ok
    /\ parsed.crs \in CRSs
    /\ receiver.crs \in CRSs
    /\ receiver.crs # parsed.crs
    /\ last.outcome = "ValueError"

\* to_crs on a GeoShape without a CRS did what set_crs(c) does: a new
\* instance, crs c, the receiver's coordinates, the receiver untouched.
AssignedLikeSetCrs ==
    /\ ReturnedNew
    /\ heap[last.ret].crs = parsed.crs
    /\ heap[last.ret].coords = receiver.coords
    /\ heap[last.ret].cls = receiver.cls
    /\ PreUntouched

\* C4 as stated: to_crs(c, transformer) on a GeoShape without a CRS behaves
\* as set_crs(c) whatever the transformer argument is.
C4_ToCrsNoCrsAnyTransformer ==
    (last.op = "to_crs" /\ receiver.crs = None /\ parsed.ok) => AssignedLikeSetCrs

\* C4 (amended): to_crs(c, transformer) on a GeoShape without a CRS behaves
\* as set_crs(c) when no transformer is given, or when the given one declares
\* no source and a target equal to c; with any other transformer it raises
\* ValueError and nothing has changed.
C4_ToCrsNoCrs ==
    (last.op = "to_crs" /\ receiver.crs = None /\ parsed.ok) =>
        IF \/ ~last.transformer.given
           \/ /\ last.transformer.source_crs = None
              /\ last.transformer.target_crs = parsed.crs
            THEN AssignedLikeSetCrs
            ELSE /\ last.outcome = "ValueError"
                 /\ heap = last.pre

\* to_crs without a transformer gave a CRS to a GeoShape that had none.
C4_Witness ==
    /\ last.op = "to_crs"
    /\ receiver.crs = None
    /\ ~last.transformer.given
    /\ parsed.ok
    /\ parsed.crs \in CRSs
    /\ ReturnedNew
    /\ heap[last.ret].crs = parsed.crs

\* C5: make_geoshape_from_geom(x) with no crs argument, x a GeoShape with a
\* CRS, returns a copy of x: a new instance with x's crs and coordinates.
C5_MakeCopiesWhenNoCrsGiven ==
    (/\ last.op = "make"
     /\ IsInstance(last.geom.cls, "GeoBaseGeometry")
     /\ last.crs = NoneArg
     /\ receiver.crs # None) =>
        /\ ReturnedNew
        /\ heap[last.ret].crs = receiver.crs
        /\ heap[last.ret].coords = receiver.coords

\* C6: to_crs(c2, transformer=t) on a GeoShape with crs c1: if t's source is
\* not c1 or t's target is not c2 the call raises ValueError and nothing has
\* changed; if both match, the call does not raise ValueError.
C6_IncompatibleTransformer ==
    (/\ last.op = "to_crs"
     /\ parsed.ok
     /\ receiver.crs # None
     /\ last.transformer.given) =>
        IF \/ last.transformer.source_crs # receiver.crs
           \/ last.transformer.target_crs # parsed.crs
            THEN /\ last.outcome = "ValueError"
                 /\ last.msg \in {"incompatible_source", "incompatible_target"}
                 /\ heap = last.pre
            ELSE last.outcome # "ValueError"

\* A transformer with the right source and the wrong target was refused.
C6_Witness ==
    /\ last.op = "to_crs"
    /\ last.transformer.given
    /\ receiver.crs \in CRSs
    /\ parsed.ok
    /\ last.transformer.source_crs = receiver.crs
    /\ last.transformer.target_crs # parsed.crs
    /\ last.outcome = "ValueError"

\* C7: to_crs(c2) on a GeoShape x with crs c1, with no transformer or a
\* matching one, returns a new instance with crs c2 whose vertices are the
\* images of x's vertices under the c1-to-c2 transform; x is as it was.
C7_ToCrsTransforms ==
    (/\ last.op = "to_crs"
     /\ parsed.ok
     /\ parsed.crs \in CRSs
     /\ receiver.crs # None
     /\ \/ ~last.transformer.given
        \/ /\ last.transformer.source_crs = receiver.crs
           /\ last.transformer.target_crs = parsed.crs) =>
        /\ ReturnedNew
        /\ last.ret # last.self
        /\ heap[last.ret].crs = parsed.crs
        /\ DOMAIN heap[last.ret].coords = DOMAIN receiver.coords
        /\ \A k \in DOMAIN receiver.coords :
              heap[last.ret].coords[k] =
                  TransformVertex(receiver.crs, parsed.crs, receiver.coords[k])
        /\ heap[last.self] = receiver

\* to_crs moved a GeoShape to a different CRS and its coordinates changed.
C7_Witness ==
    /\ last.op = "to_crs"
    /\ receiver.crs \in CRSs
    /\ parsed.ok
    /\ parsed.crs \in CRSs
    /\ parsed.crs # receiver.crs
    /\ ReturnedNew
    /\ heap[last.ret].coords # receiver.coords
    /\ heap[last.self] = receiver

\* C8: a successful set_crs(c, inplace=True) returns the receiver itself,
\* which now has crs c and its old coordinates, and creates no instance; a
\* successful set_crs(c, inplace=False) returns a new instance.
C8_InplaceIdentity ==
    (last.op = "set_crs" /\ last.outcome = "ok") =>
        IF last.inplace
            THEN /\ last.retKind = "geoshape"
                 /\ last.ret = last.self
                 /\ DOMAIN heap = DOMAIN last.pre
                 /\ heap[last.self].crs = parsed.crs
                 /\ heap[last.self].coords = receiver.coords
            ELSE /\ ReturnedNew
                 /\ last.ret # last.self

\* An in-place set_crs changed the receiver's crs.
C8_Witness ==
    /\ last.op = "set_crs"
    /\ last.inplace
    /\ last.outcome = "ok"
    /\ last.ret = last.self
    /\ heap[last.self].crs # receiver.crs

\* One step keeps every existing instance's coordinates, and keeps its crs
\* unless the step is a successful in-place set_crs on that instance.
FrameStep ==
    \A i \in DOMAIN heap :
        /\ i \in DOMAIN heap'
        /\ heap'[i].coords = heap[i].coords
        /\ heap'[i].crs # heap[i].crs =>
              /\ last'.op = "set_crs"
              /\ last'.inplace
              /\ last'.self = i
              /\ last'.outcome = "ok"

\* C9: across any sequence of calls, successful or failing, the coordinates
\* of an existing instance never change, and its crs changes only by a
\* successful set_crs(..., inplace=True) on that instance.
C9_Frame == [][FrameStep]_vars

\* make_geoshape_from_geom returned a new GeoShape for a GeoShape without a
\* CRS, and the one it was given is as it was.
C9_Witness ==
    /\ last.op = "make"
    /\ IsInstance(last.geom.cls, "GeoBaseGeometry")
    /\ receiver.crs = None
    /\ parsed.crs \in CRSs
    /\ ReturnedNew
    /\ heap[last.self] = receiver

\* C10: the crs of every GeoShape is None or a resolved CRS, never a raw
\* representation and never a geometry.
C10_CrsResolved == \A i \in DOMAIN heap : heap[i].crs \in CRSs \cup {None}

\* A raw string given as crs was parsed and the resolved CRS stored.
C10_Witness ==
    /\ last.crs.kind = "raw"
    /\ ReturnedNew
    /\ heap[last.ret].crs = FromUserInput(last.crs.val).crs
    /\ heap[last.ret].crs \in CRSs

====
